---- MODULE Spec2Model ----
(***************************************************************************)
(* Session coordinator (main.py) and telemetry sampler (cpu_monitor.py)    *)
(* of the CPU stress testing dashboard.                                    *)
(*                                                                         *)
(* Execution model.  The application is served by one asyncio event loop   *)
(* (uvicorn.run(app), main.py line 425).  Every request handler is an      *)
(* `async def` without an await, so a handler is one atomic step.  A       *)
(* background task added by a handler runs after the response has been     *)
(* sent, so other handlers may run between the handler and its task.       *)
(* execute_stress_test is an `async def` without an await as well: once it *)
(* has begun, no other coroutine of the loop runs until it returns.  Only  *)
(* the sampler thread (threading.Thread, cpu_monitor.py line 34) runs      *)
(* concurrently with it, so execute_stress_test is split into steps at     *)
(* the places where the sampler thread can interleave.                     *)
(*                                                                         *)
(* Time is counted in half seconds (the sampler interval of an active test *)
(* session, cpu_monitor.py line 222).                                      *)
(***************************************************************************)
EXTENDS Integers, Sequences, FiniteSets, TLC

\* ---- bounds of the model ------------------------------------------------
MaxClock == 1        \* the clock stops advancing here
MaxSessions == 2     \* executions of execute_stress_test over a behaviour
MaxThreads == 2      \* sampler threads that can be alive at the same time
max_history_size == 1  \* capacity of metrics_history, scaled down
MaxLen == 2          \* length of the sequences given to a function under test
MaxN == 20           \* problem sizes (max_number, size) of a workload
MaxWorkers == 3      \* cpu_count of the machine
\* samples acquired over a behaviour: enough to overflow the history
MaxSamples == max_history_size + 1

\* ---- program constants --------------------------------------------------
ResultsLimit == 50

Kinds == {"prime", "matrix", "fibonacci", "sorting", "monte_carlo"}
UnknownKind == "unknown"
\* The five start handlers differ in the test type and the parameter name
\* only; the requests of a behaviour are drawn from these test types.
RequestKinds == {"prime", "sorting"}
ParamValues == {1}
\* readings of the sensors while a test runs (psutil); the machine has no
\* temperature sensor
CpuValues == {10, 90}
FreqValues == {2400}
MemValues == {50}
SensorTemps == {<<>>}
Threads == 1..MaxThreads
Tasks == 1..MaxSessions

None == <<>>
Some(x) == <<x>>

\* dict.update
Update(d, u) ==
  [k \in (DOMAIN d) \cup (DOMAIN u) |-> IF k \in DOMAIN u THEN u[k] ELSE d[k]]

Max(S) == CHOOSE x \in S : \A y \in S : y <= x

RECURSIVE SumCpu(_)
SumCpu(s) == IF s = <<>> THEN 0 ELSE Head(s).cpu_percent + SumCpu(Tail(s))

RECURSIVE SumSeq(_)
SumSeq(s) == IF s = <<>> THEN 0 ELSE Head(s) + SumSeq(Tail(s))

\* lines 129, 130 and 133: [m.cpu_freq for m in s] and the like
CpuFreqs(s) == [k \in DOMAIN s |-> s[k].cpu_freq]
MemoryPercents(s) == [k \in DOMAIN s |-> s[k].memory_percent]
Temperatures(s) == [k \in DOMAIN s |-> s[k].temperature[1]]

\* round(x, 2) of the quotient num/den, in hundredths, ties to even
Round2(num, den) ==
  LET q == (100 * num) \div den
      r == (100 * num) % den
  IN  IF 2 * r > den \/ (2 * r = den /\ q % 2 = 1) THEN q + 1 ELSE q

VARIABLES
  clock,                 \* datetime.now() / time.time(), in half seconds
  current_test_status,   \* main.py global
  test_results_history,  \* main.py global
  background_tasks,      \* tasks added by handlers, not yet begun
  response,              \* status code of the last start handler response
  pc,                    \* position of each execution of execute_stress_test
  ex,                    \* locals of each execution of execute_stress_test
  stress_test_active,    \* StressTestMonitor
  test_start_time,       \* StressTestMonitor
  is_monitoring,         \* CPUMonitor
  monitor_thread,        \* CPUMonitor: 0 is None, else a thread
  metrics_history,       \* CPUMonitor
  metrics_queue,         \* CPUMonitor: number of items put, never taken
  thread_pc,             \* position of each sampler thread in _monitor_loop
  thread_metrics,        \* local `metrics` of each sampler thread
  caller,                \* a direct caller of the CPUMonitor methods
  call                   \* a function under test: its arguments and result

coordVars == <<current_test_status, test_results_history, background_tasks,
               response, pc, ex>>
monitorVars == <<stress_test_active, test_start_time, is_monitoring,
                 monitor_thread, metrics_history, metrics_queue>>
threadVars == <<thread_pc, thread_metrics>>
vars == <<clock, coordVars, monitorVars, threadVars, caller, call>>

NoEx == [test_type |-> "", params |-> 0, test_id |-> <<"", 0>>,
         result |-> None, error |-> None, monitoring_results |-> None]
NoMetrics == [timestamp |-> 0, cpu_percent |-> 0, cpu_freq |-> 0,
              memory_percent |-> 0, temperature |-> None]
\* pc: "ready" or "join" (blocked in monitor_thread.join()); last and
\* was_monitoring record the last method called and is_monitoring before it
NoCaller == [pc |-> "ready", last |-> "", was_monitoring |-> FALSE]
NoCall == [fn |-> ""]

Alive(t) == thread_pc[t] \notin {"unborn", "dead"}
AliveThreads == {t \in Threads : Alive(t)}

\* executions of execute_stress_test that have begun and not returned
InProgress == {i \in Tasks : pc[i] \notin {"none", "done"}}
Begun == {i \in Tasks : pc[i] # "none"}

Init ==
  /\ clock = 0
  /\ current_test_status = [running |-> FALSE, test_name |-> None, progress |-> 0]
  /\ test_results_history = <<>>
  /\ background_tasks = <<>>
  /\ response = 0
  /\ pc = [i \in Tasks |-> "none"]
  /\ ex = [i \in Tasks |-> NoEx]
  /\ stress_test_active = FALSE
  /\ test_start_time = None
  /\ is_monitoring = FALSE
  /\ monitor_thread = 0
  /\ metrics_history = <<>>
  /\ metrics_queue = 0
  /\ thread_pc = [t \in Threads |-> "unborn"]
  /\ thread_metrics = [t \in Threads |-> NoMetrics]
  /\ caller = NoCaller
  /\ call = NoCall

\* ---- the clock ----------------------------------------------------------
Tick ==
  /\ clock < MaxClock
  /\ clock' = clock + 1
  /\ UNCHANGED <<coordVars, monitorVars, threadVars, caller, call>>

\* ---- the event loop -----------------------------------------------------
\* A coroutine without an await runs to its end before the loop runs
\* another one: a handler or a background task begins only when no
\* execution of execute_stress_test is in progress.
LoopFree_threadpool == TRUE
LoopFree == InProgress = {}

\* The number of executions of a behaviour is bounded by MaxSessions.
CanSchedule == Cardinality(Begun) + Len(background_tasks) < MaxSessions

\* ---- main.py: the start handlers ----------------------------------------
AlreadyRunning_unguarded == FALSE
\* lines 80, 90, 100, 110, 120
AlreadyRunning == current_test_status.running

\* lines 77-124: the body of a start handler
start_handler(kind, p) ==
  /\ IF AlreadyRunning
       THEN /\ response' = 400
            /\ UNCHANGED background_tasks
       ELSE /\ CanSchedule
            /\ background_tasks' =
                 Append(background_tasks, [test_type |-> kind, params |-> p])
            /\ response' = 200
  /\ UNCHANGED <<clock, current_test_status, test_results_history, pc, ex,
                 monitorVars, threadVars, caller, call>>

\* a start request served by the event loop
run_stress_test(kind, p) ==
  /\ LoopFree
  /\ start_handler(kind, p)

\* lines 145-150
clear_test_results ==
  /\ LoopFree
  /\ test_results_history # <<>>
  /\ test_results_history' = <<>>
  /\ UNCHANGED <<clock, current_test_status, background_tasks, response, pc, ex,
                 monitorVars, threadVars, caller, call>>

\* ---- main.py: execute_stress_test ---------------------------------------
\* strftime('%Y%m%d_%H%M%S') keeps whole seconds only
TestId(test_type, now) == <<test_type, now \div 2>>

NextTask == CHOOSE i \in Tasks \ Begun : \A j \in Tasks \ Begun : i <= j

RunningStatus(test_type, test_id) ==
  [running |-> TRUE, test_name |-> Some(test_type),
   test_id |-> Some(test_id), progress |-> 0]

\* lines 157-163
Begin(test_type, p) ==
  /\ Tasks \ Begun # {}
  /\ ex' = [ex EXCEPT ![NextTask] =
              [NoEx EXCEPT !.test_type = test_type, !.params = p,
                           !.test_id = TestId(test_type, clock)]]
  /\ current_test_status' =
       Update(current_test_status,
              RunningStatus(test_type, TestId(test_type, clock)))
  /\ pc' = [pc EXCEPT ![NextTask] = "start_stress_test_monitoring"]

\* the event loop begins the oldest scheduled background task
execute_begin ==
  /\ LoopFree
  /\ background_tasks # <<>>
  /\ Begin(Head(background_tasks).test_type, Head(background_tasks).params)
  /\ background_tasks' = Tail(background_tasks)
  /\ UNCHANGED <<clock, test_results_history, response, monitorVars, threadVars, caller, call>>

\* execute_stress_test awaited with a test type that no handler passes
execute_direct(p) ==
  /\ LoopFree
  /\ CanSchedule
  /\ Begin(UnknownKind, p)
  /\ UNCHANGED <<clock, test_results_history, background_tasks, response,
                 monitorVars, threadVars, caller, call>>

\* ---- cpu_monitor.py: CPUMonitor -----------------------------------------
NewThread == CHOOSE t \in Threads \ AliveThreads :
               \A u \in Threads \ AliveThreads : t <= u

NotMonitoring_unguarded == TRUE
\* line 32
NotMonitoring == ~is_monitoring

\* lines 30-35 (at most MaxThreads threads are alive in the model)
start_monitoring ==
  IF NotMonitoring
    THEN /\ Threads \ AliveThreads # {}
         /\ is_monitoring' = TRUE
         /\ monitor_thread' = NewThread
         /\ thread_pc' = [thread_pc EXCEPT ![NewThread] = "while"]
         /\ thread_metrics' = [thread_metrics EXCEPT ![NewThread] = NoMetrics]
    ELSE UNCHANGED <<is_monitoring, monitor_thread, thread_pc, thread_metrics>>

Joined_timeout == TRUE
Joined_not_started ==
  IF monitor_thread = 0 THEN TRUE ELSE thread_pc[monitor_thread] # "unborn"
\* lines 40-41: join() returns once the thread has exited
Joined == IF monitor_thread = 0 THEN TRUE ELSE ~Alive(monitor_thread)

clear_history_keeps(h) == h
\* lines 186-188
clear_history(h) == <<>>

Overflow_off_by_one(h) == Len(h) > max_history_size + 1
\* line 52
Overflow(h) == Len(h) > max_history_size

\* lines 118-122
RecentMetrics(h, now, duration_seconds) ==
  SelectSeq(h, LAMBDA m : m.timestamp > now - 2 * duration_seconds)

MaxCpu(h) == Max({h[k].cpu_percent : k \in DOMAIN h})
MaxMem(h) == Max({h[k].memory_percent : k \in DOMAIN h})

\* line 133
TempReadings(recent) ==
  Temperatures(SelectSeq(recent, LAMBDA m : m.temperature # None))

\* line 134
AvgTemp(temp_readings) ==
  IF temp_readings # <<>>
    THEN Some([num |-> SumSeq(temp_readings), den |-> Len(temp_readings)])
    ELSE None

\* line 142: `if avg_temp` is false for None and for a mean of 0.0
Truthy(avg_temp) == avg_temp # None /\ avg_temp[1].num # 0

\* lines 112-145; averages in hundredths
get_average_metrics(h, now, duration_seconds) ==
  LET recent == RecentMetrics(h, now, duration_seconds)
  IN  IF h = <<>> \/ recent = <<>>
        THEN None
        ELSE Some([duration_seconds |-> duration_seconds,
                   sample_count |-> Len(recent),
                   avg_cpu_percent |-> Round2(SumCpu(recent), Len(recent)),
                   avg_cpu_freq |->
                     Round2(SumSeq(CpuFreqs(recent)),
                            Len(recent)),
                   avg_memory_percent |->
                     Round2(SumSeq(MemoryPercents(recent)),
                            Len(recent)),
                   avg_temperature |->
                     LET avg_temp == AvgTemp(TempReadings(recent))
                     IN  IF Truthy(avg_temp)
                           THEN Some(Round2(avg_temp[1].num, avg_temp[1].den))
                           ELSE None,
                   max_cpu_percent |-> MaxCpu(recent),
                   max_memory_percent |-> MaxMem(recent)])

\* ---- cpu_monitor.py: _monitor_loop, one thread ---------------------------
loop_while_ignores_flag(t) ==
  /\ thread_pc[t] = "while"
  /\ thread_pc' = [thread_pc EXCEPT ![t] = "collect"]
  /\ UNCHANGED <<clock, coordVars, monitorVars, thread_metrics, caller, call>>
\* line 45
loop_while(t) ==
  /\ thread_pc[t] = "while"
  /\ thread_pc' = [thread_pc EXCEPT ![t] = IF is_monitoring THEN "collect" ELSE "dead"]
  /\ UNCHANGED <<clock, coordVars, monitorVars, thread_metrics, caller, call>>

\* lines 47-48: a sample is acquired and queued
loop_collect(t) ==
  /\ thread_pc[t] = "collect"
  /\ metrics_queue < MaxSamples
  /\ \E c \in CpuValues, f \in FreqValues, m \in MemValues, tp \in SensorTemps :
       thread_metrics' = [thread_metrics EXCEPT
                            ![t] = [timestamp |-> clock, cpu_percent |-> c,
                                    cpu_freq |-> f, memory_percent |-> m,
                                    temperature |-> tp]]
  /\ metrics_queue' = metrics_queue + 1
  /\ thread_pc' = [thread_pc EXCEPT ![t] = "append"]
  /\ UNCHANGED <<clock, coordVars, stress_test_active, test_start_time,
                 is_monitoring, monitor_thread, metrics_history, caller, call>>

loop_collect_fails_uncaught(t) ==
  /\ thread_pc[t] = "collect"
  /\ thread_pc' = [thread_pc EXCEPT ![t] = "dead"]
  /\ UNCHANGED <<clock, coordVars, monitorVars, thread_metrics, caller, call>>
\* lines 47, 56-57: acquiring the sample raises
loop_collect_fails(t) ==
  /\ thread_pc[t] = "collect"
  /\ thread_pc' = [thread_pc EXCEPT ![t] = "sleep"]
  /\ UNCHANGED <<clock, coordVars, monitorVars, thread_metrics, caller, call>>

loop_append_prepends(t) ==
  /\ thread_pc[t] = "append"
  /\ metrics_history' = <<thread_metrics[t]>> \o metrics_history
  /\ thread_pc' = [thread_pc EXCEPT ![t] = "trim"]
  /\ UNCHANGED <<clock, coordVars, stress_test_active, test_start_time,
                 is_monitoring, monitor_thread, metrics_queue, thread_metrics, caller, call>>
\* line 51
loop_append(t) ==
  /\ thread_pc[t] = "append"
  /\ metrics_history' = Append(metrics_history, thread_metrics[t])
  /\ thread_pc' = [thread_pc EXCEPT ![t] = "trim"]
  /\ UNCHANGED <<clock, coordVars, stress_test_active, test_start_time,
                 is_monitoring, monitor_thread, metrics_queue, thread_metrics, caller, call>>

\* lines 52-53
loop_trim(t) ==
  /\ thread_pc[t] = "trim"
  /\ metrics_history' = IF Overflow(metrics_history) /\ metrics_history # <<>>
                          THEN Tail(metrics_history)
                          ELSE metrics_history
  /\ thread_pc' = [thread_pc EXCEPT ![t] = "sleep"]
  /\ UNCHANGED <<clock, coordVars, stress_test_active, test_start_time,
                 is_monitoring, monitor_thread, metrics_queue, thread_metrics, caller, call>>

\* lines 55, 58
loop_sleep(t) ==
  /\ thread_pc[t] = "sleep"
  /\ thread_pc' = [thread_pc EXCEPT ![t] = "while"]
  /\ UNCHANGED <<clock, coordVars, monitorVars, thread_metrics, caller, call>>

monitor_loop(t) ==
  \/ loop_while(t)
  \/ loop_collect(t)
  \/ loop_collect_fails(t)
  \/ loop_append(t)
  \/ loop_trim(t)
  \/ loop_sleep(t)

\* ---- cpu_monitor.py: StressTestMonitor ----------------------------------
\* lines 240-260, the value stop_stress_test_monitoring returns
\* (test_duration in half seconds; int(test_duration) is whole seconds)
MonitoringResults(h, now, start) ==
  IF start = None
    THEN None
    ELSE Some([metrics |-> get_average_metrics(h, now, (now - start[1]) \div 2),
               test_duration |-> now - start[1],
               test_start_time |-> start[1],
               test_end_time |-> now,
               peak_cpu_percent |-> IF h = <<>> THEN None ELSE Some(MaxCpu(h)),
               peak_memory_percent |->
                 IF h = <<>> THEN None ELSE Some(MaxMem(h)),
               peak_temperature |->
                 IF TempReadings(h) = <<>>
                   THEN None
                   ELSE LET tr == TempReadings(h)
                        IN  Some(Max({tr[k] : k \in DOMAIN tr}))])

\* ---- main.py: execute_stress_test, continued ----------------------------
\* cpu_monitor.py lines 229-231
start_stress_test_monitoring(i) ==
  /\ pc[i] = "start_stress_test_monitoring"
  /\ stress_test_active' = TRUE
  /\ test_start_time' = Some(clock)
  /\ metrics_history' = clear_history(metrics_history)
  /\ pc' = [pc EXCEPT ![i] = "start_monitoring"]
  /\ UNCHANGED <<clock, current_test_status, test_results_history,
                 background_tasks, response, ex, is_monitoring, monitor_thread,
                 metrics_queue, threadVars, caller, call>>

\* cpu_monitor.py line 232
start_session_monitoring(i) ==
  /\ pc[i] = "start_monitoring"
  /\ start_monitoring
  /\ pc' = [pc EXCEPT ![i] = "workload"]
  /\ UNCHANGED <<clock, current_test_status, test_results_history,
                 background_tasks, response, ex, stress_test_active,
                 test_start_time, metrics_history, metrics_queue, caller, call>>

WorkloadResult(test_type, p) == [test_type |-> test_type, value |-> p]

\* main.py lines 170-179: the workload returns its result
workload_returns(i) ==
  /\ pc[i] = "workload"
  /\ ex[i].test_type \in Kinds
  /\ ex' = [ex EXCEPT ![i].result =
              Some(WorkloadResult(ex[i].test_type, ex[i].params))]
  /\ pc' = [pc EXCEPT ![i] = "stop_monitoring"]
  /\ UNCHANGED <<clock, current_test_status, test_results_history,
                 background_tasks, response, monitorVars, threadVars, caller, call>>

\* main.py lines 170-181, 203: a chunk raises, or the test type is unknown
workload_raises(i) ==
  /\ pc[i] = "workload"
  /\ ex' = [ex EXCEPT ![i].error =
              IF ex[i].test_type \in Kinds
                THEN Some("worker failed")
                ELSE Some("Unknown test type")]
  /\ pc' = [pc EXCEPT ![i] = "stop_monitoring"]
  /\ UNCHANGED <<clock, current_test_status, test_results_history,
                 background_tasks, response, monitorVars, threadVars, caller, call>>

\* cpu_monitor.py lines 237-239 (called at main.py line 184 or line 210)
stop_monitoring_flag(i) ==
  /\ pc[i] = "stop_monitoring"
  /\ stress_test_active' = FALSE
  /\ is_monitoring' = FALSE
  /\ pc' = [pc EXCEPT ![i] = "join"]
  /\ UNCHANGED <<clock, current_test_status, test_results_history,
                 background_tasks, response, ex, test_start_time,
                 monitor_thread, metrics_history, metrics_queue, threadVars, caller, call>>

\* cpu_monitor.py lines 40-41 and 240-260
stop_monitoring_join(i) ==
  /\ pc[i] = "join"
  /\ Joined
  /\ ex' = [ex EXCEPT ![i].monitoring_results =
              MonitoringResults(metrics_history, clock, test_start_time)]
  /\ pc' = [pc EXCEPT ![i] = "archive"]
  /\ UNCHANGED <<clock, current_test_status, test_results_history,
                 background_tasks, response, monitorVars, threadVars, caller, call>>

\* main.py lines 187-194
final_result(e, now) ==
  [test_id |-> e.test_id, test_type |-> e.test_type, parameters |-> e.params,
   timestamp |-> now, test_results |-> e.result[1],
   monitoring_results |-> e.monitoring_results]

error_result_partial(e, now) ==
  [test_id |-> e.test_id, test_type |-> e.test_type, parameters |-> e.params,
   timestamp |-> now, error |-> e.error[1], test_results |-> e.result,
   monitoring_results |-> e.monitoring_results]
\* main.py lines 204-211
error_result(e, now) ==
  [test_id |-> e.test_id, test_type |-> e.test_type, parameters |-> e.params,
   timestamp |-> now, error |-> e.error[1],
   monitoring_results |-> e.monitoring_results]

\* main.py lines 197-201
StoreResult(h, r) ==
  LET h1 == Append(h, r)
  IN  IF Len(h1) > ResultsLimit THEN Tail(h1) ELSE h1

\* main.py lines 187-201 on success, lines 204-212 on failure
archive(i) ==
  /\ pc[i] = "archive"
  /\ test_results_history' =
       IF ex[i].error = None
         THEN StoreResult(test_results_history, final_result(ex[i], clock))
         ELSE Append(test_results_history, error_result(ex[i], clock))
  /\ pc' = [pc EXCEPT ![i] = "finally"]
  /\ UNCHANGED <<clock, current_test_status, background_tasks, response, ex,
                 monitorVars, threadVars, caller, call>>

IdleStatus_still_running ==
  [running |-> TRUE, test_name |-> None, test_id |-> None, progress |-> 0]
\* main.py lines 216-221
IdleStatus ==
  [running |-> FALSE, test_name |-> None, test_id |-> None, progress |-> 0]

finally(i) ==
  /\ pc[i] = "finally"
  /\ current_test_status' = Update(current_test_status, IdleStatus)
  /\ pc' = [pc EXCEPT ![i] = "done"]
  /\ UNCHANGED <<clock, test_results_history, background_tasks, response, ex,
                 monitorVars, threadVars, caller, call>>

execute_stress_test(i) ==
  \/ start_stress_test_monitoring(i)
  \/ start_session_monitoring(i)
  \/ workload_returns(i)
  \/ workload_raises(i)
  \/ stop_monitoring_flag(i)
  \/ stop_monitoring_join(i)
  \/ archive(i)
  \/ finally(i)

\* ---- the served program -------------------------------------------------
Next ==
  \/ Tick
  \/ \E k \in RequestKinds, p \in ParamValues : run_stress_test(k, p)
  \/ clear_test_results
  \/ execute_begin
  \/ \E p \in ParamValues : execute_direct(p)
  \/ \E i \in Tasks : execute_stress_test(i)
  \/ \E t \in Threads : monitor_loop(t)

Spec == Init /\ [][Next]_vars

\* The event loop keeps running the execution it has begun and the
\* operating system keeps scheduling every live sampler thread.
LiveNext ==
  \/ Tick
  \/ \E p \in ParamValues : run_stress_test("prime", p)
  \/ execute_begin
  \/ \E p \in ParamValues : execute_direct(p)
  \/ \E i \in Tasks : execute_stress_test(i)
  \/ \E t \in Threads : monitor_loop(t)

LiveSpec ==
  /\ Init
  /\ [][LiveNext]_vars
  /\ WF_vars(\E i \in Tasks : execute_stress_test(i))
  /\ WF_vars(\E t \in Threads : monitor_loop(t))

\* ---- start requests served at any moment --------------------------------
\* The served program with the start handlers run also while an execution
\* of execute_stress_test is in progress, as they would be if the
\* execution yielded to the event loop between its steps.
AnyTimeNext ==
  \/ Tick
  \/ \E k \in RequestKinds, p \in ParamValues : start_handler(k, p)
  \/ execute_begin
  \/ \E p \in ParamValues : execute_direct(p)
  \/ \E i \in Tasks : execute_stress_test(i)
  \/ \E t \in Threads : monitor_loop(t)

AnyTimeSpec == Init /\ [][AnyTimeNext]_vars

\* ---- CPUMonitor called directly ------------------------------------------
\* One caller invokes the methods of a CPUMonitor in any order, one call
\* after the other, while the sampler threads it starts run.
caller_start_monitoring ==
  /\ caller.pc = "ready"
  /\ start_monitoring
  /\ caller' = [pc |-> "ready", last |-> "start_monitoring",
                was_monitoring |-> is_monitoring]
  /\ UNCHANGED <<call, clock, coordVars, stress_test_active, test_start_time,
                 metrics_history, metrics_queue>>

\* line 39
caller_stop_monitoring ==
  /\ caller.pc = "ready"
  /\ is_monitoring' = FALSE
  /\ caller' = [pc |-> "join", last |-> "stop_monitoring",
                was_monitoring |-> is_monitoring]
  /\ UNCHANGED <<call, clock, coordVars, stress_test_active, test_start_time,
                 monitor_thread, metrics_history, metrics_queue, threadVars>>

\* lines 40-41
caller_join ==
  /\ caller.pc = "join"
  /\ Joined
  /\ caller' = [caller EXCEPT !.pc = "ready"]
  /\ UNCHANGED <<call, clock, coordVars, monitorVars, threadVars>>

\* lines 186-188
caller_clear_history ==
  /\ caller.pc = "ready"
  /\ metrics_history # <<>>
  /\ metrics_history' = clear_history(metrics_history)
  /\ caller' = [pc |-> "ready", last |-> "clear_history",
                was_monitoring |-> is_monitoring]
  /\ UNCHANGED <<call, clock, coordVars, stress_test_active, test_start_time,
                 is_monitoring, monitor_thread, metrics_queue, threadVars>>

MonitorNext ==
  \/ Tick
  \/ caller_start_monitoring
  \/ caller_stop_monitoring
  \/ caller_join
  \/ caller_clear_history
  \/ \E t \in Threads : monitor_loop(t)

MonitorSpec == Init /\ [][MonitorNext]_vars

\* The operating system keeps scheduling every live sampler thread, whose
\* sample acquisition and sleep return, and the caller's thread.
MonitorLiveSpec ==
  /\ Init
  /\ [][MonitorNext]_vars
  /\ WF_vars(\E t \in Threads : monitor_loop(t))
  /\ WF_vars(caller_join)

\* ---- get_average_metrics on a given History -----------------------------
\* The History and the time of the call are drawn, then the method is
\* called with a window of whole seconds.
AvgTimes == 0..4
AvgNow == Max(AvgTimes)
AvgWindows == {0, 1, 2, 3}
AvgSamples ==
  [timestamp : AvgTimes, cpu_percent : {10, 35}, cpu_freq : {2400},
   memory_percent : {50}, temperature : {None, Some(0), Some(70)}]

\* Histories as _monitor_loop builds them: in order of acquisition
SeqsUpTo(S, n) == UNION {[1..k -> S] : k \in 0..n}
AvgHistories ==
  {h \in SeqsUpTo(AvgSamples, MaxLen) :
     \A k \in 1..(Len(h) - 1) : h[k].timestamp <= h[k + 1].timestamp}

AvgInit ==
  /\ clock = AvgNow
  /\ metrics_history \in AvgHistories
  /\ current_test_status = [running |-> FALSE, test_name |-> None, progress |-> 0]
  /\ test_results_history = <<>>
  /\ background_tasks = <<>>
  /\ response = 0
  /\ pc = [i \in Tasks |-> "none"]
  /\ ex = [i \in Tasks |-> NoEx]
  /\ stress_test_active = FALSE
  /\ test_start_time = None
  /\ is_monitoring = FALSE
  /\ monitor_thread = 0
  /\ metrics_queue = 0
  /\ thread_pc = [t \in Threads |-> "unborn"]
  /\ thread_metrics = [t \in Threads |-> NoMetrics]
  /\ caller = NoCaller
  /\ call = NoCall

\* cpu_monitor.py lines 112-145
call_get_average_metrics(duration_seconds) ==
  /\ call' = [fn |-> "get_average_metrics",
              duration_seconds |-> duration_seconds,
              result |-> get_average_metrics(metrics_history, clock,
                                             duration_seconds)]
  /\ UNCHANGED <<clock, coordVars, monitorVars, threadVars, caller>>

AvgNext == \E d \in AvgWindows : call_get_average_metrics(d)

AvgSpec == AvgInit /\ [][AvgNext]_vars

\* ---- stress_tests.py: work partitioning ----------------------------------
ChunkEnd_no_remainder(j, cpu_count, chunk_size, total) == j * chunk_size
\* lines 118 and 155, for the j-th of cpu_count workers (i = j - 1)
ChunkEnd(j, cpu_count, chunk_size, total) ==
  IF j - 1 < cpu_count - 1 THEN j * chunk_size ELSE total

ChunkStart_overlapping(j, chunk_size) == (j - 1) * chunk_size
\* line 117, for the j-th worker (i = j - 1)
ChunkStart(j, chunk_size) == (j - 1) * chunk_size + 1

\* lines 113-119: inclusive spans of numbers
PrimeChunks(max_number, cpu_count) ==
  LET chunk_size == max_number \div cpu_count
  IN  [j \in 1..cpu_count |->
         <<ChunkStart(j, chunk_size),
           ChunkEnd(j, cpu_count, chunk_size, max_number)>>]

\* lines 150-156: spans of rows start_row..end_row-1
MatrixChunks(size, cpu_count) ==
  LET chunk_size == size \div cpu_count
  IN  [j \in 1..cpu_count |->
         <<(j - 1) * chunk_size,
           ChunkEnd(j, cpu_count, chunk_size, size)>>]

call_prime_chunks(max_number, cpu_count) ==
  /\ call' = [fn |-> "prime_chunks", total |-> max_number,
              cpu_count |-> cpu_count,
              result |-> PrimeChunks(max_number, cpu_count)]
  /\ UNCHANGED <<clock, coordVars, monitorVars, threadVars, caller>>

call_matrix_chunks(size, cpu_count) ==
  /\ call' = [fn |-> "matrix_chunks", total |-> size,
              cpu_count |-> cpu_count,
              result |-> MatrixChunks(size, cpu_count)]
  /\ UNCHANGED <<clock, coordVars, monitorVars, threadVars, caller>>

PartitionNext ==
  \/ \E n \in 0..MaxN, k \in 1..MaxWorkers : call_prime_chunks(n, k)
  \/ \E n \in 0..MaxN, k \in 1..MaxWorkers : call_matrix_chunks(n, k)

PartitionSpec == Init /\ [][PartitionNext]_vars

\* ---- stress_tests.py: prime_sieve_chunk ---------------------------------
\* int(math.sqrt(end))
ISqrt(n) == CHOOSE r \in 0..n : r * r <= n /\ (r + 1) * (r + 1) > n

StartMultiple_first_multiple(p, start) == ((start + p - 1) \div p) * p
\* line 21
StartMultiple(p, start) ==
  LET sq == p * p
      first == ((start + p - 1) \div p) * p
  IN  IF sq >= first THEN sq ELSE first

\* lines 19-25: the indices i - start of the sieve that are set to False
Cleared(start, end) ==
  {i \in start..end :
     \E p \in 2..ISqrt(end) :
       /\ i >= StartMultiple(p, start)
       /\ (i - StartMultiple(p, start)) % p = 0}

\* lines 28-31
RECURSIVE CollectPrimes(_, _, _)
CollectPrimes(i, end, cleared) ==
  IF i > end
    THEN <<>>
    ELSE (IF i \in cleared THEN <<>> ELSE <<i>>)
           \o CollectPrimes(i + 1, end, cleared)

\* lines 10-33
prime_sieve_chunk(start0, end) ==
  LET start == IF start0 < 2 THEN 2 ELSE start0
  IN  CollectPrimes(start, end, Cleared(start, end))

\* the chunk ranges of small workloads, the empty ranges (start = end + 1)
\* of workers without work, and the range [2, 100]
SieveInputs ==
  {r \in (0..MaxN) \X (0..MaxN) : r[1] <= r[2] + 1} \cup {<<2, 100>>}

call_prime_sieve_chunk(start, end) ==
  /\ call' = [fn |-> "prime_sieve_chunk", start |-> start, end |-> end,
              result |-> prime_sieve_chunk(start, end)]
  /\ UNCHANGED <<clock, coordVars, monitorVars, threadVars, caller>>

SieveNext == \E r \in SieveInputs : call_prime_sieve_chunk(r[1], r[2])

SieveSpec == Init /\ [][SieveNext]_vars

\* ----------------------------------------------------------------------
\* test_matrix_multiplication (stress_tests.py): the row blocks of the
\* product are computed by cpu_count workers and stacked in the order in
\* which the workers complete.  Row r of the product is written r.

\* line 39: np.dot(a[start_row:end_row], b), the rows start_row..end_row-1
matrix_multiply_chunk(start_row, end_row) ==
  [k \in 1..(end_row - start_row) |-> start_row + k - 1]

\* line 167
RECURSIVE vstack(_)
vstack(results) ==
  IF results = <<>> THEN <<>> ELSE Head(results) \o vstack(Tail(results))

MatrixRunning ==
  call.fn = "test_matrix_multiplication" /\ call.result_matrix = None

\* lines 150-161: the chunks are built and every chunk is submitted
submit_chunks(size, cpu_count) ==
  /\ ~MatrixRunning
  /\ call' = [fn |-> "test_matrix_multiplication",
              size |-> size, cpu_count |-> cpu_count,
              chunks |-> MatrixChunks(size, cpu_count),
              futures |-> 1..cpu_count,
              results |-> <<>>,
              result_matrix |-> None]
  /\ UNCHANGED <<clock, coordVars, monitorVars, threadVars, caller>>

\* lines 163-164: as_completed yields the future of worker j, whichever
\* worker finishes next, and its block is appended
as_completed(j) ==
  /\ MatrixRunning
  /\ j \in call.futures
  /\ call' = [call EXCEPT
       !.futures = @ \ {j},
       !.results = Append(@, matrix_multiply_chunk(call.chunks[j][1],
                                                   call.chunks[j][2]))]
  /\ UNCHANGED <<clock, coordVars, monitorVars, threadVars, caller>>

\* line 167
stack_results ==
  /\ MatrixRunning
  /\ call.futures = {}
  /\ call' = [call EXCEPT !.result_matrix = Some(vstack(call.results))]
  /\ UNCHANGED <<clock, coordVars, monitorVars, threadVars, caller>>

MatrixNext ==
  \/ \E size \in 0..MaxN, cpu_count \in 1..MaxWorkers :
       submit_chunks(size, cpu_count)
  \/ \E j \in 1..MaxWorkers : as_completed(j)
  \/ stack_results

MatrixSpec == Init /\ [][MatrixNext]_vars

\* ----------------------------------------------------------------------
\* merge (stress_tests.py).  Indices count from 1.  Besides the values,
\* the model yields the origin of every element of the result,
\* <<"left", i>> or <<"right", j>>.

TakeLeft_strict(l, r) == l < r
\* line 81
TakeLeft(l, r) == l <= r

\* line 80
LoopEnded(left, right, st) == st.i > Len(left) \/ st.j > Len(right)

\* lines 80-86: one turn of the while loop on the state (i, j, result);
\* once the loop has ended, a turn changes nothing
MergeStep(left, right, st) ==
  IF ~LoopEnded(left, right, st)
    THEN IF TakeLeft(left[st.i], right[st.j])
           THEN [i |-> st.i + 1, j |-> st.j,
                 result |-> Append(st.result, <<"left", st.i>>)]
           ELSE [i |-> st.i, j |-> st.j + 1,
                 result |-> Append(st.result, <<"right", st.j>>)]
    ELSE st

\* n turns of the loop from the state st
RECURSIVE MergeLoop(_, _, _, _)
MergeLoop(left, right, st, n) ==
  IF n = 0 THEN st
  ELSE IF n = 1 THEN MergeStep(left, right, st)
  ELSE LET half == MergeLoop(left, right, st, n \div 2)
       IN  IF LoopEnded(left, right, half)
             THEN half
             ELSE MergeLoop(left, right, half, n - (n \div 2))

\* lines 77-89: the loop ends within len(left) + len(right) turns, then
\* the rest of left and the rest of right are appended
MergeOrigins(left, right) ==
  LET st == MergeLoop(left, right, [i |-> 1, j |-> 1, result |-> <<>>],
                      Len(left) + Len(right))
  IN  st.result
        \o [k \in 1..(Len(left) - st.i + 1) |-> <<"left", st.i + k - 1>>]
        \o [k \in 1..(Len(right) - st.j + 1) |-> <<"right", st.j + k - 1>>]

ValueAt(left, right, o) == IF o[1] = "left" THEN left[o[2]] ELSE right[o[2]]

\* lines 75-90
merge(left, right) ==
  LET origins == MergeOrigins(left, right)
  IN  [k \in DOMAIN origins |-> ValueAt(left, right, origins[k])]

MergeKeys == {1, 2, 3}
IsSorted(s) == \A k \in 1..(Len(s) - 1) : s[k] <= s[k + 1]
SortedSeqs == {s \in SeqsUpTo(MergeKeys, MaxLen) : IsSorted(s)}

call_merge(left, right) ==
  /\ call' = [fn |-> "merge", left |-> left, right |-> right,
              origins |-> MergeOrigins(left, right),
              result |-> merge(left, right)]
  /\ UNCHANGED <<clock, coordVars, monitorVars, threadVars, caller>>

MergeNext == \E left, right \in SortedSeqs : call_merge(left, right)

MergeSpec == Init /\ [][MergeNext]_vars

\* ----------------------------------------------------------------------
\* merge_sort_parallel (stress_tests.py).  A half sorted by a worker
\* process and a half sorted in place by the caller are the same call,
\* merge_sort_parallel(half, depth + 1); the returned list is the value the
\* caller merges in either branch.

ParallelThreshold == 1000   \* line 61
ParallelDepth == 3          \* line 61

UsesWorkers_any_depth(n, depth) == n > ParallelThreshold
\* line 61
UsesWorkers(n, depth) == n > ParallelThreshold /\ depth < ParallelDepth

IsTrivial_pairs(arr) == Len(arr) <= 2
\* line 55
IsTrivial(arr) == Len(arr) <= 1

\* lines 53-72
RECURSIVE merge_sort_parallel(_, _)
merge_sort_parallel(arr, depth) ==
  IF IsTrivial(arr)
    THEN arr
    ELSE LET mid == Len(arr) \div 2
             left == merge_sort_parallel(SubSeq(arr, 1, mid), depth + 1)
             right == merge_sort_parallel(SubSeq(arr, mid + 1, Len(arr)),
                                          depth + 1)
         IN  merge(left, right)

\* the calls of merge_sort_parallel(arr, depth), len(arr) = n, that take
\* the branch of lines 62-67
RECURSIVE Dispatches(_, _)
Dispatches(n, depth) ==
  IF n <= 1
    THEN 0
    ELSE (IF UsesWorkers(n, depth) THEN 1 ELSE 0)
           + Dispatches(n \div 2, depth + 1)
           + Dispatches(n - (n \div 2), depth + 1)

\* test_array: every short array, and arrays just below, at and just
\* above the threshold
SortKeys == {1, 2, 3}
ThresholdSizes ==
  {ParallelThreshold - 1, ParallelThreshold, ParallelThreshold + 1}
Descending(n) == [k \in 1..n |-> n - k + 1]
Repeating(n) == [k \in 1..n |-> ((k * 7) % 5) + 1]
SortInputs ==
  SeqsUpTo(SortKeys, MaxLen + 2)
    \cup {Descending(n) : n \in ThresholdSizes}
    \cup {Repeating(n) : n \in ThresholdSizes}

\* line 216: the array is kept and a copy is sorted, once in a run of
\* the workload
call_merge_sort_parallel(test_array) ==
  /\ call = NoCall
  /\ call' = [fn |-> "merge_sort_parallel",
              test_array |-> test_array,
              dispatches |-> Dispatches(Len(test_array), 0),
              result |-> merge_sort_parallel(test_array, 0)]
  /\ UNCHANGED <<clock, coordVars, monitorVars, threadVars, caller>>

SortNext == \E test_array \in SortInputs : call_merge_sort_parallel(test_array)

SortSpec == Init /\ [][SortNext]_vars

\* ----------------------------------------------------------------------
\* The processes of merge_sort_parallel (stress_tests.py).  A call is
\* named by its path from the first call, <<>>: the call of the left half
\* of call t is Append(t, "left").  Only the length of an array matters to
\* line 61.  A call is running in its process, waiting for the results of
\* its two workers, or done.

SortTreeRunning == call.fn = "sort_tree"

\* line 216: sizes that dispatch at no, one, two and three levels, and
\* that leave arrays over the threshold at depth 3
ForkSizes == {0, 1, 1000, 1001, 2002, 4004, 8016, 100000}

call_sort(n) ==
  /\ call = NoCall
  /\ call' = [fn |-> "sort_tree", size |-> n,
              tasks |-> (<<>> :> [n |-> n, state |-> "running"])]
  /\ UNCHANGED <<clock, coordVars, monitorVars, threadVars, caller>>

\* lines 58-64: both halves are submitted to a pool of two workers
dispatch(t) ==
  /\ SortTreeRunning
  /\ t \in DOMAIN call.tasks
  /\ call.tasks[t].state = "running"
  /\ call.tasks[t].n > 1
  /\ UsesWorkers(call.tasks[t].n, Len(t))
  /\ LET n == call.tasks[t].n
         mid == n \div 2
     IN  call' = [call EXCEPT !.tasks =
           (Append(t, "left") :> [n |-> mid, state |-> "running"])
             @@ (Append(t, "right") :> [n |-> n - mid, state |-> "running"])
             @@ [@ EXCEPT ![t].state = "waiting"]]
  /\ UNCHANGED <<clock, coordVars, monitorVars, threadVars, caller>>

\* lines 55-56 and 68-72: the call sorts its array in its own process;
\* the calls below it have shorter arrays at greater depths, and take the
\* same branch of line 61
sort_in_process(t) ==
  /\ SortTreeRunning
  /\ t \in DOMAIN call.tasks
  /\ call.tasks[t].state = "running"
  /\ call.tasks[t].n <= 1 \/ ~UsesWorkers(call.tasks[t].n, Len(t))
  /\ call' = [call EXCEPT !.tasks[t].state = "done"]
  /\ UNCHANGED <<clock, coordVars, monitorVars, threadVars, caller>>

\* lines 66-67 and 72: both results have arrived and are merged
collect(t) ==
  /\ SortTreeRunning
  /\ t \in DOMAIN call.tasks
  /\ call.tasks[t].state = "waiting"
  /\ call.tasks[Append(t, "left")].state = "done"
  /\ call.tasks[Append(t, "right")].state = "done"
  /\ call' = [call EXCEPT !.tasks[t].state = "done"]
  /\ UNCHANGED <<clock, coordVars, monitorVars, threadVars, caller>>

Paths == IF SortTreeRunning THEN DOMAIN call.tasks ELSE {}

ForkNext ==
  \/ \E n \in ForkSizes : call_sort(n)
  \/ \E t \in Paths : dispatch(t)
  \/ \E t \in Paths : sort_in_process(t)
  \/ \E t \in Paths : collect(t)

ForkSpec == Init /\ [][ForkNext]_vars

\* ----------------------------------------------------------------------
\* test_monte_carlo_pi (stress_tests.py).  pi_estimate is the quotient
\* num / den, kept as the pair; a division by zero raises.

\* lines 93-101: the points inside the circle among `iterations` random
\* points, any number from none to all of them
monte_carlo_pi_chunk(iterations) == 0..iterations

\* line 243
PiDenominator(total_iterations, cpu_count) == total_iterations

MonteTotals == 0..7

\* lines 234-243; inside[j] is the value the j-th worker returns
call_test_monte_carlo_pi(total_iterations, cpu_count, inside) ==
  /\ call = NoCall
  /\ LET iterations_per_core == total_iterations \div cpu_count
         total_inside == SumSeq(inside)
         den == PiDenominator(total_iterations, cpu_count)
     IN  call' = [fn |-> "test_monte_carlo_pi",
                  total_iterations |-> total_iterations,
                  cpu_count |-> cpu_count,
                  iterations_per_core |-> iterations_per_core,
                  inside |-> inside,
                  pi_estimate |->
                    IF den = 0
                      THEN None
                      ELSE Some([num |-> 4 * total_inside, den |-> den])]
  /\ UNCHANGED <<clock, coordVars, monitorVars, threadVars, caller>>

MonteNext ==
  \E total_iterations \in MonteTotals, cpu_count \in 1..MaxWorkers :
    \E inside \in [1..cpu_count ->
                     monte_carlo_pi_chunk(total_iterations \div cpu_count)] :
      call_test_monte_carlo_pi(total_iterations, cpu_count, inside)

MonteSpec == Init /\ [][MonteNext]_vars

\* ----------------------------------------------------------------------
\* main.py: the status request, served by the event loop

\* cpu_monitor.py lines 262-272; the sample is the one get_current_metrics
\* acquires at the call
get_realtime_metrics(now, current) ==
  IF stress_test_active
    THEN [current_cpu_percent |-> current.cpu_percent,
          current_memory_percent |-> current.memory_percent,
          current_temperature |-> current.temperature,
          test_duration |->
            IF test_start_time # None THEN now - test_start_time[1] ELSE 0]
    ELSE <<>>

\* main.py lines 68-74
get_test_status ==
  /\ LoopFree
  /\ \E c \in CpuValues, f \in FreqValues, m \in MemValues, tp \in SensorTemps :
       call' = [fn |-> "get_test_status",
                result |->
                  IF current_test_status.running
                    THEN Update(current_test_status,
                                get_realtime_metrics(clock,
                                  [timestamp |-> clock, cpu_percent |-> c,
                                   cpu_freq |-> f, memory_percent |-> m,
                                   temperature |-> tp]))
                    ELSE current_test_status]
  /\ UNCHANGED <<clock, coordVars, monitorVars, threadVars, caller>>

StatusNext ==
  \/ Next
  \/ get_test_status

StatusSpec == Init /\ [][StatusNext]_vars





\* ----------------------------------------------------------------------
\* cpu_monitor.py: the read operations of a CPUMonitor, called by the
\* direct caller while the sampler threads run

\* line 110: metrics_history[-count:], the whole list for count = 0
LatestMetrics(h, count) ==
  IF count = 0 \/ count >= Len(h)
    THEN h
    ELSE SubSeq(h, Len(h) - count + 1, Len(h))

ReadCounts == {0, 1, 2}
ReadWindows == {0, 1}

\* lines 108-110
caller_get_latest_metrics(count) ==
  /\ caller.pc = "ready"
  /\ call' = [fn |-> "get_latest_metrics", count |-> count,
              result |-> LatestMetrics(metrics_history, count)]
  /\ UNCHANGED <<clock, coordVars, monitorVars, threadVars, caller>>

\* lines 112-145
caller_get_average_metrics(duration_seconds) ==
  /\ caller.pc = "ready"
  /\ call' = [fn |-> "get_average_metrics",
              duration_seconds |-> duration_seconds,
              result |-> get_average_metrics(metrics_history, clock,
                                             duration_seconds)]
  /\ UNCHANGED <<clock, coordVars, monitorVars, threadVars, caller>>

\* lines 190-215: the data written to the file
caller_export_metrics ==
  /\ caller.pc = "ready"
  /\ call' = [fn |-> "export_metrics", export_time |-> clock,
              total_samples |-> Len(metrics_history),
              metrics |-> metrics_history]
  /\ UNCHANGED <<clock, coordVars, monitorVars, threadVars, caller>>

\* lines 104-106: a sample is acquired and returned
caller_get_current_metrics ==
  /\ caller.pc = "ready"
  /\ \E c \in CpuValues, f \in FreqValues, m \in MemValues, tp \in SensorTemps :
       call' = [fn |-> "get_current_metrics",
                result |-> [timestamp |-> clock, cpu_percent |-> c,
                            cpu_freq |-> f, memory_percent |-> m,
                            temperature |-> tp]]
  /\ UNCHANGED <<clock, coordVars, monitorVars, threadVars, caller>>

ReaderNext ==
  \/ MonitorNext
  \/ \E count \in ReadCounts : caller_get_latest_metrics(count)
  \/ \E d \in ReadWindows : caller_get_average_metrics(d)
  \/ caller_export_metrics
  \/ caller_get_current_metrics

ReaderSpec == Init /\ [][ReaderNext]_vars



\* ----------------------------------------------------------------------
\* The served program with an archive that earlier sessions have filled
\* up to the limit or to one record below it.

\* the record of the k-th earlier session, a completed prime session
EarlierRecord(k) ==
  LET t == 2 * (k - ResultsLimit - 1)
  IN  final_result([NoEx EXCEPT !.test_type = "prime", !.params = 1,
                                !.test_id = TestId("prime", t),
                                !.result = Some(WorkloadResult("prime", 1)),
                                !.monitoring_results =
                                  MonitoringResults(<<>>, t, Some(t))],
                   t)

FilledArchive(n) == [k \in 1..n |-> EarlierRecord(ResultsLimit - n + k)]

ArchiveInit ==
  /\ clock = 0
  /\ current_test_status =
       [running |-> FALSE, test_name |-> None, test_id |-> None, progress |-> 0]
  /\ test_results_history \in
       {FilledArchive(ResultsLimit - 1), FilledArchive(ResultsLimit)}
  /\ background_tasks = <<>>
  /\ response = 0
  /\ pc = [i \in Tasks |-> "none"]
  /\ ex = [i \in Tasks |-> NoEx]
  /\ stress_test_active = FALSE
  /\ test_start_time = None
  /\ is_monitoring = FALSE
  /\ monitor_thread = 0
  /\ metrics_history = <<>>
  /\ metrics_queue = 0
  /\ thread_pc = [t \in Threads |-> "unborn"]
  /\ thread_metrics = [t \in Threads |-> NoMetrics]
  /\ caller = NoCaller
  /\ call = NoCall

ArchiveSpec == ArchiveInit /\ [][Next]_vars

\* ----------------------------------------------------------------------
\* CPUMonitor called from two threads: besides the calls of the direct
\* caller, a second thread calls start_monitoring at any moment, also
\* while the caller waits in the join of stop_monitoring.
\* lines 30-35
concurrent_start_monitoring ==
  /\ start_monitoring
  /\ UNCHANGED <<call, caller, clock, coordVars, stress_test_active,
                 test_start_time, metrics_history, metrics_queue>>

RaceNext ==
  \/ MonitorNext
  \/ concurrent_start_monitoring

RaceSpec == Init /\ [][RaceNext]_vars

\* ----------------------------------------------------------------------
\* main.py lines 136-142: the first record with the test_id, or the 404
\* response
NotFound == None

RECURSIVE get_test_result(_, _)
get_test_result(history, test_id) ==
  IF history = <<>>
    THEN NotFound
    ELSE IF Head(history).test_id = test_id
           THEN Some(Head(history))
           ELSE get_test_result(Tail(history), test_id)

\* ----------------------------------------------------------------------
\* test_prime_generation (stress_tests.py): every chunk is sieved by a
\* worker and the lists of primes are joined in the order in which the
\* workers complete.

PrimeRunning ==
  call.fn = "test_prime_generation" /\ call.primes_found = None

\* lines 113-123: the chunks are built and every chunk is submitted
submit_prime_chunks(max_number, cpu_count) ==
  /\ ~PrimeRunning
  /\ call' = [fn |-> "test_prime_generation",
              max_number |-> max_number, cpu_count |-> cpu_count,
              chunks |-> PrimeChunks(max_number, cpu_count),
              futures |-> 1..cpu_count,
              results |-> <<>>,
              primes_found |-> None]
  /\ UNCHANGED <<clock, coordVars, monitorVars, threadVars, caller>>

\* lines 126-127: as_completed yields the future of worker j, whichever
\* worker finishes next, and its primes are added to the results
prime_chunk_completed(j) ==
  /\ PrimeRunning
  /\ j \in call.futures
  /\ call' = [call EXCEPT
       !.futures = @ \ {j},
       !.results = @ \o prime_sieve_chunk(call.chunks[j][1],
                                          call.chunks[j][2])]
  /\ UNCHANGED <<clock, coordVars, monitorVars, threadVars, caller>>

\* line 135
count_primes ==
  /\ PrimeRunning
  /\ call.futures = {}
  /\ call' = [call EXCEPT !.primes_found = Some(Len(call.results))]
  /\ UNCHANGED <<clock, coordVars, monitorVars, threadVars, caller>>

PrimeNext ==
  \/ \E max_number \in 0..MaxN, cpu_count \in 1..MaxWorkers :
       submit_prime_chunks(max_number, cpu_count)
  \/ \E j \in 1..MaxWorkers : prime_chunk_completed(j)
  \/ count_primes

PrimeSpec == Init /\ [][PrimeNext]_vars

\* ----------------------------------------------------------------------
\* test_fibonacci_sequence (stress_tests.py).  The returned dictionary
\* holds the number of indices only, so the order in which the workers
\* complete is not kept: results[k] is the value for fib_numbers[k].

\* lines 42-50: the state (a, b) after the turns for k..n of the loop
RECURSIVE FibLoop(_, _, _, _)
FibLoop(a, b, k, n) == IF k > n THEN b ELSE FibLoop(b, a + b, k + 1, n)

fibonacci_worker(n) == IF n <= 1 THEN n ELSE FibLoop(0, 1, 2, n)

\* list(range(start, stop, step)) for a step > 0
Range(start, stop, step) ==
  IF stop <= start
    THEN <<>>
    ELSE [k \in 1..((stop - start + step - 1) \div step) |->
            start + (k - 1) * step]

\* line 186: the step of the range
FibStep(max_n, cpu_count) == max_n \div (cpu_count * 10)

FibSizes == 1..40

\* lines 181-194; range() raises ValueError for a step of zero
call_test_fibonacci_sequence(max_n, cpu_count) ==
  /\ call = NoCall
  /\ LET step == FibStep(max_n, cpu_count)
         fib_numbers == Range(1, max_n + 1, step)
     IN  call' =
           IF step = 0
             THEN [fn |-> "test_fibonacci_sequence", max_n |-> max_n,
                   cpu_count |-> cpu_count,
                   raised |-> Some("ValueError"),
                   fib_numbers |-> <<>>, results |-> <<>>]
             ELSE [fn |-> "test_fibonacci_sequence", max_n |-> max_n,
                   cpu_count |-> cpu_count,
                   raised |-> None,
                   fib_numbers |-> fib_numbers,
                   results |-> [k \in DOMAIN fib_numbers |->
                                  fibonacci_worker(fib_numbers[k])]]
  /\ UNCHANGED <<clock, coordVars, monitorVars, threadVars, caller>>

FibNext ==
  \E max_n \in FibSizes, cpu_count \in 1..MaxWorkers :
    call_test_fibonacci_sequence(max_n, cpu_count)

FibSpec == Init /\ [][FibNext]_vars

\* ======================================================================
Done == {i \in Tasks : pc[i] = "done"}
Failed(i) == ex[i].error # None
ArchiveStep(i) == pc[i] = "archive" /\ pc'[i] = "finally"
FinallyStep(i) == pc[i] = "finally" /\ pc'[i] = "done"

\* C1: the start guard is an atomic check-and-set: at most one accepted
\* start request is outstanding (scheduled or executing) at any time, so
\* two start requests are never both accepted without a completion in
\* between.
C1_AtomicStartGuard ==
  Len(background_tasks)
    + Cardinality({i \in InProgress : ex[i].test_type \in Kinds}) <= 1

\* C2: at most one execution of execute_stress_test is in progress in any
\* state, the coordinator is Running exactly while one is, an execution
\* that starts the sampler is the only one in progress, and at most one
\* sampling loop is alive.
C2_OneActiveSession ==
  /\ Cardinality(InProgress) <= 1
  /\ current_test_status.running <=> InProgress # {}
  /\ \A i \in Tasks :
       pc[i] \in {"start_monitoring", "workload"} => InProgress = {i}
  /\ Cardinality(AliveThreads) <= 1

C2_Witness ==
  \E i, j \in Tasks :
    /\ pc[i] = "done"
    /\ pc[j] = "workload"
    /\ AliveThreads # {}
    /\ current_test_status.test_id = Some(ex[j].test_id)

\* C3: a start request made while the coordinator is Running is answered
\* with status 400, schedules no background task and changes neither the
\* active session (test_id, test_name), the sampler nor the History.
C3_RejectedWhileRunning ==
  [][\A k \in Kinds, p \in ParamValues :
       (current_test_status.running /\ start_handler(k, p)) =>
          /\ response' = 400
          /\ UNCHANGED <<background_tasks, current_test_status,
                         test_results_history, pc, ex, monitorVars,
                         threadVars>>]_vars

C3_Witness ==
  /\ response = 400
  /\ current_test_status.running
  /\ \E i \in Tasks : pc[i] = "workload"
                      /\ current_test_status.test_id = Some(ex[i].test_id)
  /\ AliveThreads # {}
  /\ metrics_history # <<>>

\* C4: on the success path and on the failure path the sampling loop has
\* exited when the session record is archived, and from then until the
\* next execution begins no sampler thread is alive and the History does
\* not change.
SessionOver ==
  /\ Begun # {}
  /\ \A i \in Tasks : pc[i] \in {"none", "archive", "finally", "done"}

C4_SamplerStoppedAfterSession ==
  [][SessionOver =>
       /\ AliveThreads = {}
       /\ ~is_monitoring
       /\ metrics_history' = metrics_history]_vars

C4_Witness ==
  \E i, j \in Tasks :
    /\ pc[i] = "done" /\ ~Failed(i)
    /\ pc[j] = "finally" /\ Failed(j)
    /\ metrics_history # <<>>
    /\ \E t \in Threads : thread_pc[t] = "dead"

\* C5: every execution that has made the coordinator Running eventually
\* returns, leaving running = False and test_id = None, so that the start
\* guard accepts again; on the result path and on the exception path.
C5_ReturnsToIdle ==
  \A i \in Tasks :
    (pc[i] \notin {"none", "done"}) ~>
      (/\ pc[i] = "done"
       /\ ~current_test_status.running
       /\ current_test_status.test_id = None)

C5_Witness ==
  \E i, j \in Tasks :
    /\ pc[i] = "done" /\ Failed(i)
    /\ pc[j] = "done" /\ ~Failed(j)
    /\ ~current_test_status.running
    /\ current_test_status.test_id = None

\* C6: a failed session appends exactly one record to the archive; the
\* record carries the session's test_id, test type, parameters and the
\* error message and has no test_results entry; it is the newest record
\* when the session ends, and no other step of an execution changes the
\* archive.
IsErrorRecordOf(r, e) ==
  /\ "error" \in DOMAIN r
  /\ "test_results" \notin DOMAIN r
  /\ r.test_id = e.test_id
  /\ r.test_type = e.test_type
  /\ r.parameters = e.params
  /\ r.error = e.error[1]

C6_FailedSessionRecord ==
  [][/\ \A i \in Tasks :
          /\ (ArchiveStep(i) /\ Failed(i)) =>
               /\ Len(test_results_history') = Len(test_results_history) + 1
               /\ SubSeq(test_results_history', 1, Len(test_results_history))
                    = test_results_history
               /\ IsErrorRecordOf(
                    test_results_history'[Len(test_results_history')], ex[i])
          /\ (FinallyStep(i) /\ Failed(i)) =>
               /\ test_results_history # <<>>
               /\ IsErrorRecordOf(
                    test_results_history[Len(test_results_history)], ex[i])
     /\ (InProgress # {} /\ \A i \in Tasks : ~ArchiveStep(i)) =>
          test_results_history' = test_results_history]_vars

C6_Witness ==
  \E i \in Tasks :
    /\ pc[i] = "done"
    /\ ex[i].test_type \in Kinds
    /\ ex[i].error = Some("worker failed")
    /\ test_results_history # <<>>
    /\ IsErrorRecordOf(test_results_history[Len(test_results_history)], ex[i])

\* C7: for an unknown test type the sampler is never started and the
\* History is not touched: while an execution with an unknown test type is
\* in progress, monitoring is off and no sampler thread is alive.
C7_UnknownKindNeverSamples ==
  \A i \in InProgress :
    ex[i].test_type \notin Kinds => (~is_monitoring /\ AliveThreads = {})

\* C8: once stop_monitoring has returned, and until the next
\* start_monitoring, the sampling loop has exited and no sample is
\* appended to the History.
C8_StopJoins ==
  [][(caller.pc = "ready" /\ ~is_monitoring) =>
       /\ AliveThreads = {}
       /\ metrics_history' \in {metrics_history, <<>>}]_vars

C8_Witness ==
  /\ caller.pc = "ready"
  /\ caller.last = "stop_monitoring"
  /\ caller.was_monitoring
  /\ ~is_monitoring
  /\ monitor_thread # 0
  /\ thread_pc[monitor_thread] = "dead"
  /\ metrics_history # <<>>

\* C9: start_monitoring called while is_monitoring is true changes
\* nothing: no thread is created, monitor_thread and the History stay the
\* same, and one sampling loop is alive.
C9_StartIdempotent ==
  [][(is_monitoring /\ caller_start_monitoring) =>
       /\ UNCHANGED <<monitorVars, threadVars>>
       /\ Cardinality(AliveThreads) = 1]_vars

C9_Witness ==
  /\ caller.last = "start_monitoring"
  /\ caller.was_monitoring
  /\ is_monitoring
  /\ Cardinality(AliveThreads) = 1
  /\ metrics_history # <<>>

\* C10: whenever a reader of the History can run (a handler of the event
\* loop, or stop_stress_test_monitoring after the join) the History holds
\* at most max_history_size samples; a sample is appended only to a
\* History within capacity, and the step that follows an append beyond
\* capacity removes the oldest sample and nothing else.
ReaderCanRun ==
  \/ LoopFree
  \/ \E i \in Tasks : pc[i] = "join" /\ Joined

C10_HistoryBounded ==
  /\ [](ReaderCanRun => Len(metrics_history) <= max_history_size)
  /\ [][metrics_history' # metrics_history =>
          \/ metrics_history' = <<>>
          \/ /\ Len(metrics_history) <= max_history_size
             /\ Len(metrics_history') = Len(metrics_history) + 1
             /\ SubSeq(metrics_history', 1, Len(metrics_history))
                  = metrics_history
          \/ /\ Len(metrics_history) = max_history_size + 1
             /\ metrics_history' = Tail(metrics_history)]_vars

C10_Witness ==
  /\ Cardinality(Begun) = 1
  /\ metrics_queue = max_history_size + 1
  /\ Len(metrics_history) = max_history_size
  /\ \E t \in Threads : thread_pc[t] = "dead"
  /\ \E i \in Tasks : pc[i] = "done"

\* C11: a tick whose sample acquisition fails appends nothing to the
\* History and queues nothing, and the loop goes on: from the failed tick
\* the thread sleeps and comes back to the loop test, and a sampler thread
\* exits only from the loop test, when is_monitoring is false.
FailedTick(t) == thread_pc[t] = "collect" /\ thread_pc'[t] = "sleep"

C11_SamplingMissContinues ==
  [][\A t \in Threads :
       /\ FailedTick(t) =>
            /\ metrics_history' = metrics_history
            /\ metrics_queue' = metrics_queue
       /\ (thread_pc[t] = "sleep" /\ thread_pc'[t] # "sleep") =>
            thread_pc'[t] = "while"
       /\ (thread_pc[t] = "while" /\ thread_pc'[t] # "while" /\ is_monitoring) =>
            thread_pc'[t] = "collect"
       /\ (Alive(t) /\ thread_pc'[t] = "dead") =>
            (thread_pc[t] = "while" /\ ~is_monitoring)]_vars

\* the first tick of a sampler failed and the loop is still running
C11_Witness ==
  \E t \in Threads :
    /\ thread_pc[t] = "sleep"
    /\ is_monitoring
    /\ metrics_queue = 0
    /\ metrics_history = <<>>

\* C12: get_average_metrics(window) aggregates exactly the samples with
\* timestamp >= now - window: the result is empty when there is none, and
\* otherwise counts and averages those samples, the sample at exactly
\* now - window included.
InWindow(h, now, window) ==
  SelectSeq(h, LAMBDA m : m.timestamp >= now - 2 * window)

C12_WindowInclusive ==
  call.fn = "get_average_metrics" =>
    LET inside == InWindow(metrics_history, clock, call.duration_seconds)
    IN  IF inside = <<>>
          THEN call.result = None
          ELSE /\ call.result # None
               /\ call.result[1].sample_count = Len(inside)
               /\ call.result[1].max_cpu_percent = MaxCpu(inside)

\* C13: get_average_metrics returns the empty result for an empty History
\* and for a History whose samples are all older than now - window; when
\* all N samples have timestamp >= now - window it returns sample_count = N,
\* the means of cpu_percent, cpu_freq and memory_percent over the N samples
\* (to two decimals) and their maxima.
C13_AverageOfAll ==
  call.fn = "get_average_metrics" =>
    LET h == metrics_history
        cutoff == clock - 2 * call.duration_seconds
        N == Len(h)
    IN  /\ h = <<>> => call.result = None
        /\ (\A k \in DOMAIN h : h[k].timestamp < cutoff) => call.result = None
        /\ (N > 0 /\ \A k \in DOMAIN h : h[k].timestamp >= cutoff) =>
             /\ call.result # None
             /\ call.result[1].sample_count = N
             /\ call.result[1].avg_cpu_percent = Round2(SumCpu(h), N)
             /\ call.result[1].avg_cpu_freq =
                  Round2(SumSeq(CpuFreqs(h)), N)
             /\ call.result[1].avg_memory_percent =
                  Round2(SumSeq(MemoryPercents(h)), N)
             /\ call.result[1].max_cpu_percent = MaxCpu(h)
             /\ call.result[1].max_memory_percent = MaxMem(h)

\* C14: in a non-empty aggregate, avg_temperature is absent if and only if
\* no sample of the window has a temperature; otherwise it is the mean (to
\* two decimals) of the temperatures of the samples that have one.
C14_TemperaturePresent ==
  (call.fn = "get_average_metrics" /\ call.result # None) =>
    LET readings == TempReadings(RecentMetrics(metrics_history, clock,
                                               call.duration_seconds))
    IN  IF readings = <<>>
          THEN call.result[1].avg_temperature = None
          ELSE call.result[1].avg_temperature =
                 Some(Round2(SumSeq(readings), Len(readings)))

\* C15: the cpu_count ranges of the prime workload (numbers start..end)
\* and of the matrix workload (rows start_row..end_row-1) are contiguous,
\* pairwise disjoint and cover 1..N, respectively 0..N-1, exactly; each of
\* the first cpu_count-1 ranges holds N div cpu_count items and the last
\* one holds N div cpu_count + N mod cpu_count.
Items(fn, r) == IF fn = "prime_chunks" THEN r[1]..r[2] ELSE r[1]..(r[2] - 1)

C15_PartitionCovers ==
  call.fn \in {"prime_chunks", "matrix_chunks"} =>
    LET N == call.total
        K == call.cpu_count
        r == call.result
        first == IF call.fn = "prime_chunks" THEN 1 ELSE 0
        items(j) == Items(call.fn, r[j])
    IN  /\ Len(r) = K
        /\ r[1][1] = first
        /\ \A j \in 1..(K - 1) : Max(items(j) \cup {r[j][1] - 1}) + 1 = r[j + 1][1]
        /\ \A j, l \in 1..K : j # l => items(j) \cap items(l) = {}
        /\ UNION {items(j) : j \in 1..K} = first..(first + N - 1)
        /\ \A j \in 1..(K - 1) : Cardinality(items(j)) = N \div K
        /\ Cardinality(items(K)) = (N \div K) + (N % K)
        /\ SumSeq([j \in 1..K |-> Cardinality(items(j))]) = N

C15_Witness ==
  /\ call.fn = "prime_chunks"
  /\ call.cpu_count = 3
  /\ call.total = 20
  /\ call.result = <<<<1, 6>>, <<7, 12>>, <<13, 20>>>>

\* C16: for a range with start <= end, prime_sieve_chunk returns the
\* primes p with max(start, 2) <= p <= end, each once and in ascending
\* order; over [2, 100] these are 25 primes, the largest 97; an empty range
\* gives the empty list.
IsPrime(n) == n >= 2 /\ \A d \in 2..(n - 1) : n % d # 0

C16_SieveExact ==
  call.fn = "prime_sieve_chunk" =>
    LET r == call.result
        lo == IF call.start < 2 THEN 2 ELSE call.start
    IN  /\ \A k \in 1..(Len(r) - 1) : r[k] < r[k + 1]
        /\ {r[k] : k \in DOMAIN r} = {n \in lo..call.end : IsPrime(n)}
        /\ call.start > call.end => r = <<>>
        /\ (call.start = 2 /\ call.end = 100) => (Len(r) = 25 /\ r[25] = 97)

C16_Witness ==
  /\ call.fn = "prime_sieve_chunk"
  /\ call.start = 2
  /\ call.end = 100
  /\ Len(call.result) = 25

\* C17: for every completion order of the workers the stacked result of
\* the matrix workload has the rows of the product in their original
\* order: the block of range i is at position i.
C17_RowOrderPreserved ==
  (call.fn = "test_matrix_multiplication" /\ call.result_matrix # None) =>
    call.result_matrix[1] = [k \in 1..call.size |-> k - 1]

\* C18: merge of two sorted sequences returns a sorted sequence of length
\* len(left) + len(right) in which every element of left and of right
\* occurs exactly once, and it is stable: the elements of each input keep
\* their relative order and among equal keys those of left come before
\* those of right.
C18_MergeSortedStable ==
  call.fn = "merge" =>
    LET o == call.origins
        r == call.result
        all == {<<"left", i>> : i \in DOMAIN call.left}
                 \cup {<<"right", j>> : j \in DOMAIN call.right}
    IN  /\ IsSorted(r)
        /\ Len(r) = Len(call.left) + Len(call.right)
        /\ {o[k] : k \in DOMAIN o} = all
        /\ Len(o) = Cardinality(all)
        /\ \A k \in DOMAIN r : r[k] = ValueAt(call.left, call.right, o[k])
        /\ \A k, l \in DOMAIN o :
             (k < l /\ o[k][1] = o[l][1]) => o[k][2] < o[l][2]
        /\ \A k, l \in DOMAIN o :
             (r[k] = r[l] /\ o[k][1] = "left" /\ o[l][1] = "right") => k < l

C18_Witness ==
  /\ call.fn = "merge"
  /\ call.left = <<1, 2>>
  /\ call.right = <<2, 3>>
  /\ call.origins = <<<<"left", 1>>, <<"left", 2>>, <<"right", 1>>, <<"right", 2>>>>

\* C19: merge_sort_parallel returns the sorted arrangement of its input,
\* the sequence a reference sort returns: it is in ascending order and
\* every value occurs in it as often as in the input.  This holds for the
\* sizes 0, 1 and just below, at and just above the parallel threshold,
\* whether the halves are sorted by workers or by the caller.
Occurrences(s, v) == Cardinality({k \in DOMAIN s : s[k] = v})

C19_SortEqualsReference ==
  call.fn = "merge_sort_parallel" =>
    LET a == call.test_array
        r == call.result
    IN  /\ IsSorted(r)
        /\ Len(r) = Len(a)
        /\ \A v \in {a[k] : k \in DOMAIN a} \cup {r[k] : k \in DOMAIN r} :
             Occurrences(r, v) = Occurrences(a, v)
        /\ (call.dispatches > 0) = (Len(a) > ParallelThreshold)

C19_Witness ==
  /\ call.fn = "merge_sort_parallel"
  /\ Len(call.test_array) = ParallelThreshold + 1
  /\ call.dispatches = 1
  /\ call.result = [k \in 1..(ParallelThreshold + 1) |-> k]

\* C20: halves are given to workers only by calls at depth < 3 on arrays of
\* more than 1000 elements: no call at depth >= 3 dispatches, no dispatched
\* call is deeper than 3, and at no moment are more than 8 dispatched
\* sub-sorts running as leaves (running, not waiting for workers of their
\* own).
Dispatched == {t \in Paths : Len(t) >= 1}
RunningLeaves == {t \in Dispatched : call.tasks[t].state = "running"}

C20_FanOutBounded ==
  call.fn = "sort_tree" =>
    /\ \A t \in Paths :
         call.tasks[t].state = "waiting" =>
           Len(t) < 3 /\ call.tasks[t].n > 1000
    /\ \A t \in Dispatched :
         /\ Len(t) <= 3
         /\ call.tasks[SubSeq(t, 1, Len(t) - 1)].n > 1000
    /\ Cardinality(RunningLeaves) <= 8

C20_Witness ==
  /\ call.fn = "sort_tree"
  /\ Cardinality(RunningLeaves) = 8
  /\ \A t \in RunningLeaves : Len(t) = 3 /\ call.tasks[t].n > 1000

\* C21: whenever points were sampled, the Monte Carlo estimate equals four
\* times the points inside divided by the number of points sampled,
\* cpu_count * (total_iterations div cpu_count), also when total_iterations
\* is not a multiple of cpu_count.
C21_EstimateOverSampled ==
  (call.fn = "test_monte_carlo_pi" /\ call.iterations_per_core > 0) =>
    /\ call.pi_estimate # None
    /\ call.pi_estimate[1].num * (call.cpu_count * call.iterations_per_core)
         = 4 * SumSeq(call.inside) * call.pi_estimate[1].den

\* C22: a status request answered while a session is running reports
\* running with that session's test_id, kind and elapsed duration; one
\* answered while no session is running reports the most recent archived
\* (completed or failed) session.
StatusAnswered == call' # call /\ call'.fn = "get_test_status"

C22_StatusReportsSession ==
  [][StatusAnswered =>
       LET r == call'.result
       IN  IF current_test_status.running
             THEN /\ r.running
                  /\ r.test_id = current_test_status.test_id
                  /\ r.test_name = current_test_status.test_name
                  /\ "test_duration" \in DOMAIN r
                  /\ test_start_time # None
                  /\ r.test_duration = clock - test_start_time[1]
             ELSE test_results_history # <<>> =>
                    /\ "test_id" \in DOMAIN r
                    /\ r.test_id =
                         Some(test_results_history[Len(test_results_history)].test_id)
    ]_vars

\* C23: when the workload has succeeded, the aggregate of the session's
\* monitoring results counts every sample that is in History when the
\* sampler has stopped, whatever the duration of the session.
C23_AggregateCountsSession ==
  \A i \in Tasks :
    (pc[i] = "archive" /\ ex[i].error = None) =>
      /\ ex[i].monitoring_results # None
      /\ metrics_history # <<>> =>
           /\ ex[i].monitoring_results[1].metrics # None
           /\ ex[i].monitoring_results[1].metrics[1].sample_count
                = Len(metrics_history)

\* C24: every session starts its sampler on an empty History with no
\* sampler of an earlier session alive, and until its monitoring results
\* are computed only its own sampler is alive: every sample in History
\* then was acquired at or after the session's start.
C24_SessionStartsEmpty ==
  \A i \in Tasks :
    /\ pc[i] = "start_monitoring" =>
         metrics_history = <<>> /\ AliveThreads = {}
    /\ pc[i] \in {"workload", "stop_monitoring", "join", "archive"} =>
         /\ AliveThreads \subseteq {monitor_thread}
         /\ test_start_time # None
         /\ \A k \in DOMAIN metrics_history :
              metrics_history[k].timestamp >= test_start_time[1]

\* the second session has computed its results on a History of its own
\* sample, after a first session that had captured a sample
C24_Witness ==
  /\ Done # {}
  /\ Len(test_results_history) = 1
  /\ test_results_history[1].monitoring_results # None
  /\ test_results_history[1].monitoring_results[1].peak_cpu_percent # None
  /\ \E i \in Tasks : pc[i] = "archive" /\ Len(metrics_history) = 1

\* C25: the timestamps of the History never decrease along it; a read
\* operation (get_latest_metrics, get_average_metrics, export_metrics,
\* get_current_metrics) leaves the History as it is; the History changes
\* only by a clear, or by a step of a live sampler thread that appends its
\* sample at the end or drops the oldest sample of a History over
\* capacity; and outside the two statements of that thread (append, trim)
\* the History holds at most max_history_size samples.
NonDecreasing(h) ==
  \A k \in 1..(Len(h) - 1) : h[k].timestamp <= h[k + 1].timestamp

ReadAnswered ==
  /\ call' # call
  /\ call'.fn \in {"get_latest_metrics", "get_average_metrics",
                   "export_metrics", "get_current_metrics"}

SamplerWrites(t) ==
  /\ Alive(t)
  /\ thread_pc'[t] # thread_pc[t]
  /\ \/ metrics_history' = Append(metrics_history, thread_metrics[t])
     \/ /\ Len(metrics_history) > max_history_size
        /\ metrics_history' = Tail(metrics_history)

C26_StopTerminates ==
  /\ (caller.pc = "join") ~> (caller.pc = "ready" /\ AliveThreads = {})
  /\ [][caller.pc = "join" =>
          \A t \in Threads :
            ~(thread_pc[t] = "while" /\ thread_pc'[t] = "collect")]_vars
  /\ []((caller.pc = "join" /\ AliveThreads = {}) => ENABLED caller_join)

\* a second stop_monitoring, on the stopped sampler, has returned
C26_Witness ==
  /\ caller.pc = "ready"
  /\ caller.last = "stop_monitoring"
  /\ ~caller.was_monitoring
  /\ monitor_thread # 0
  /\ thread_pc[monitor_thread] = "dead"

\* C27: the archive never holds more than 50 records, and a session
\* archived into a full archive takes the place of the oldest record.
C27_ArchiveBounded ==
  /\ [](Len(test_results_history) <= 50)
  /\ [][\A i \in Tasks :
          (ArchiveStep(i) /\ Len(test_results_history) = 50) =>
            /\ Len(test_results_history') = 50
            /\ SubSeq(test_results_history', 1, 49)
                 = Tail(test_results_history)
            /\ test_results_history'[50].test_id = ex[i].test_id]_vars

\* C28: at most one sampling loop of the CPUMonitor is alive, whatever the
\* interleaving of the start_monitoring and stop_monitoring calls, also
\* when start_monitoring is called while a stop_monitoring waits for the
\* loop to exit.
C28_OneSamplingLoop == Cardinality(AliveThreads) <= 1

\* C29: get_test_result of the test_id of an archived record returns that
\* record, and get_test_result of an id that no archived record has
\* returns NotFound.
PossibleIds ==
  {TestId(k, t) : k \in Kinds \cup {UnknownKind}, t \in 0..MaxClock}

C29_ResultById ==
  /\ \A k \in DOMAIN test_results_history :
       get_test_result(test_results_history, test_results_history[k].test_id)
         = Some(test_results_history[k])
  /\ \A id \in PossibleIds :
       (\A k \in DOMAIN test_results_history :
          test_results_history[k].test_id # id) =>
         get_test_result(test_results_history, id) = NotFound

\* C30: for every max_number >= 0, every number of workers and every
\* completion order, primes_found is the number of primes up to
\* max_number, and no prime is in the results twice.
C30_PrimesCounted ==
  (call.fn = "test_prime_generation" /\ call.primes_found # None) =>
    /\ call.primes_found[1]
         = Cardinality({n \in 1..call.max_number : IsPrime(n)})
    /\ \A k, l \in DOMAIN call.results :
         call.results[k] = call.results[l] => k = l

\* three workers, the last chunk completed first; a chunk boundary (7) is
\* a prime
C30_Witness ==
  /\ call.fn = "test_prime_generation"
  /\ call.max_number = 20
  /\ call.cpu_count = 3
  /\ call.primes_found = Some(8)
  /\ call.results = <<13, 17, 19, 2, 3, 5, 7, 11>>

\* C31: for every max_n >= 1 and every number of workers the Fibonacci
\* workload does not raise, its list of indices is not empty, every index
\* lies in 1..max_n and one value is computed per index; also when max_n
\* is smaller than ten times the number of workers.
C31_FibonacciCompletes ==
  call.fn = "test_fibonacci_sequence" =>
    /\ call.raised = None
    /\ call.fib_numbers # <<>>
    /\ \A k \in DOMAIN call.fib_numbers :
         call.fib_numbers[k] \in 1..call.max_n
    /\ Len(call.results) = Len(call.fib_numbers)
====
